---- MODULE Spec2Model ----
(***************************************************************************)
(* Model of automation/python/sql_permissions_manager.py: the permission   *)
(* reconciliation walk of SQLPermissionsManager (apply_permissions and the *)
(* helpers it calls), run against SQL Server sessions whose statements may *)
(* fail.                                                                   *)
(*                                                                         *)
(* Strings built by f-strings are modelled as tuples of their parts; names *)
(* (logins, users) are sequences of one-character strings so that          *)
(* login.split('\\')[-1] is computed and not assumed.  Timestamps and log  *)
(* lines (self.logger) are left out; the audit log, the counters, the      *)
(* sessions and the server-side principals are state.                      *)
(***************************************************************************)
EXTENDS Integers, Sequences, FiniteSets, TLC

(* ---------------------------- bounds ----------------------------------- *)
\* longest configuration, in servers
MaxServers == 2
\* failures (connect, query, execute, commit, file write) injected per run
MaxFaults == 2
\* helper calls made in a row when the helpers are called on their own
MaxCalls == 2
\* longest login identifier, in characters, when the derivation is run alone
MaxLoginLen == 5

(* ------------------------ configuration values -------------------------- *)
BS == "\\"
\* str(None) as an f-string renders it; also stands for the None object
None == <<"None">>

LoginApp == <<"D", BS, "a">>
LoginSql == <<"s">>
LoginNest == <<"A", BS, "B", BS, "c">>

\* 'user' absent, login_type given, two roles and an object-scoped grant
PermApp ==
    [login |-> LoginApp, login_type |-> "Windows",
     roles |-> <<"db_datareader", "db_datawriter">>,
     grants |-> << [permission |-> "EXECUTE", object |-> <<"dbo.uspGetData">>] >>]
\* explicit user, login of kind sql
PermSql ==
    [login |-> LoginSql, user |-> <<"u">>, login_type |-> "sql",
     roles |-> <<"db_datareader">>,
     grants |-> << [permission |-> "SELECT"] >>]
\* 'user' present with a null value; login_type, grants absent (defaults)
PermNull ==
    [login |-> LoginNest, user |-> None, roles |-> <<"db_owner">>]

ServerOne ==
    [name |-> "SQL-01",
     databases |-> << [name |-> "AppDb", permissions |-> <<PermApp, PermSql>>] >>]
ServerTwo ==
    [name |-> "SQL-02", auth_type |-> "sql",
     databases |-> << [name |-> "AppDb", permissions |-> <<PermNull>>],
                      [name |-> "LogDb"],
                      [name |-> "RepDb", permissions |-> <<PermNull>>] >>]
\* a server entry without a 'databases' key
ServerBare == [name |-> "SQL-03"]

ServerSpecs == {ServerOne, ServerTwo, ServerBare}

\* the server lists of the runs: up to MaxServers servers with databases,
\* the two kinds alternating, or the bare server followed by fewer
ServerLists ==
    LET other(a) == IF a = ServerOne THEN ServerTwo ELSE ServerOne
        full(n) == { [i \in 1..n |-> IF i % 2 = 1 THEN a ELSE other(a)] :
                        a \in {ServerOne, ServerTwo} }
    IN  UNION { full(n) : n \in 1..MaxServers }
        \cup { <<ServerBare>> \o ss : ss \in UNION { full(n) : n \in 0..(MaxServers - 1) } }

\* the parsed JSON documents the runs are started with; one has no 'servers'
Configs == { [servers |-> ss] : ss \in ServerLists } \cup { [other |-> "x"] }

(* --------------------------- pure helpers ------------------------------ *)
\* dict.get(key, default)
Get(d, key, default) == IF key \in DOMAIN d THEN d[key] ELSE default

\* str.lower() on the values login_type / auth_type take here
Lower(t) ==
    CASE t = "Windows" -> "windows"
      [] t = "SQL" -> "sql"
      [] OTHER -> t

\* str.split(sep, 1): split at the first separator only
SplitOnce(s, sep) ==
    IF \A i \in 1..Len(s) : s[i] # sep
    THEN << s >>
    ELSE LET i == CHOOSE j \in 1..Len(s) :
                      s[j] = sep /\ \A k \in 1..(j - 1) : s[k] # sep
         IN  << SubSeq(s, 1, i - 1), SubSeq(s, i + 1, Len(s)) >>

\* str.split(sep): the list of the pieces between the separators
RECURSIVE Split(_, _)
Split(s, sep) ==
    IF \A i \in 1..Len(s) : s[i] # sep
    THEN << s >>
    ELSE LET i == CHOOSE j \in 1..Len(s) :
                      s[j] = sep /\ \A k \in 1..(j - 1) : s[k] # sep
         IN  << SubSeq(s, 1, i - 1) >> \o Split(SubSeq(s, i + 1, Len(s)), sep)

\* list[-1]
Last(l) == l[Len(l)]

\* apply_permissions: user = perm.get('user', login.split('\\')[-1])
EffectiveUser(perm) == Get(perm, "user", Last(Split(perm.login, BS)))

\* _create_database_user: if user is None: user = login.split('\\')[-1]
ResolvedUser(user, login) == IF user = None THEN Last(Split(login, BS)) ELSE user

Servers(cfg) == cfg.servers
Databases(server) == Get(server, "databases", << >>)
Permissions(dbc) == Get(dbc, "permissions", << >>)
Roles(perm) == Get(perm, "roles", << >>)
Grants(perm) == Get(perm, "grants", << >>)

(* ------------------------- server-side state -------------------------- *)
ServerNames == { sp.name : sp \in ServerSpecs }
DatabaseNames == { "AppDb", "LogDb", "RepDb" }

\* the security state of the servers: logins per server, users per database,
\* role memberships and grants
NoPrincipals ==
    [logins |-> [n \in ServerNames |-> {}],
     users |-> [n \in ServerNames |-> [d \in DatabaseNames |-> {}]],
     members |-> {}, granted |-> {}]
LoginsOnly ==
    [NoPrincipals EXCEPT !.logins = [n \in ServerNames |-> {LoginApp, LoginSql, LoginNest}]]
LoginsAndUsers ==
    [LoginsOnly EXCEPT
        !.users = [n \in ServerNames |-> [d \in DatabaseNames |-> {<<"a">>, <<"u">>, <<"c">>}]]]
InitialDbs == {NoPrincipals, LoginsOnly, LoginsAndUsers}

\* Python truth value of an optional string (None and '' are false)
Truthy(x) == x # None /\ x # << >>

\* the existence queries
CheckLoginSql(login) == <<"SELECT name FROM sys.server_principals WHERE name =", login>>
CheckUserSql(database, user) ==
    <<"USE", database, "SELECT name FROM sys.database_principals WHERE name =", user>>

\* the statements, as the f-strings of the helpers build them
CreateLoginSql(login) == <<"CREATE LOGIN", login, "FROM WINDOWS">>
CreateUserSql(database, user, login) == <<"USE", database, "CREATE USER", user, "FOR LOGIN", login>>
AddRoleMemberSql(database, role, user) == <<"USE", database, "ALTER ROLE", role, "ADD MEMBER", user>>
GrantSql(database, permission, object_name, user) ==
    IF Truthy(object_name)
    THEN <<"USE", database, "GRANT", permission, "ON", object_name, "TO", user>>
    ELSE <<"USE", database, "GRANT", permission, "TO", user>>

IsMutating(sql) ==
    \/ sql[1] = "CREATE LOGIN"
    \/ sql[1] = "USE" /\ sql[3] \in {"CREATE USER", "ALTER ROLE", "GRANT"}

\* what a committed statement does to the server it was sent to
Committed(state, srv, sql) ==
    CASE sql[1] = "CREATE LOGIN" ->
            [state EXCEPT !.logins[srv] = @ \cup {sql[2]}]
      [] sql[1] = "USE" /\ sql[3] = "CREATE USER" ->
            [state EXCEPT !.users[srv][sql[2]] = @ \cup {sql[4]}]
      [] sql[1] = "USE" /\ sql[3] = "ALTER ROLE" ->
            [state EXCEPT !.members = @ \cup {<<srv, sql[2], sql[4], sql[6]>>}]
      [] sql[1] = "USE" /\ sql[3] = "GRANT" ->
            [state EXCEPT !.granted = @ \cup {<<srv, SubSeq(sql, 2, Len(sql))>>}]
      [] OTHER -> state

(* ------------------------------ state ---------------------------------- *)
VARIABLES
    config,         \* self.config, the parsed JSON document
    dry_run,        \* self.dry_run
    audit_log,      \* self.audit_log
    total_success,  \* apply_permissions: total_success
    total_failed,   \* apply_permissions: total_failed
    pc,             \* where the run is
    si, di, pi,     \* loop positions: server, database, permission entry
    ri,             \* loop position in roles, then in grants
    session,        \* per configured server: "none", "open", "closed", "refused"
    db,             \* security state of the servers
    db0,            \* the security state the run started from
    trace,          \* what was sent to the sessions and what the helpers returned
    faults,         \* failures injected so far
    audit_file,     \* the exported audit file, <<>> while there is none
    exit_code       \* process exit status, -1 while running

vars == <<config, dry_run, audit_log, total_success, total_failed, pc, si, di, pi, ri,
          session, db, db0, trace, faults, audit_file, exit_code>>

Init ==
    /\ config \in Configs
    /\ dry_run \in BOOLEAN
    /\ audit_log = << >>
    /\ total_success = 0
    /\ total_failed = 0
    /\ pc = "load"
    /\ si = 0 /\ di = 0 /\ pi = 0 /\ ri = 0
    /\ session = [i \in 1..Len(Get(config, "servers", << >>)) |-> "none"]
    /\ db \in InitialDbs
    /\ db0 = db
    /\ trace = << >>
    /\ faults = 0
    /\ audit_file = << >>
    /\ exit_code = -1

(* ------------------------- position helpers --------------------------- *)
CurServer == config.servers[si]
CurDb == Databases(CurServer)[di]
CurPerm == Permissions(CurDb)[pi]
CurLogin == CurPerm.login
CurUser == EffectiveUser(CurPerm)

\* first database at or after d that has a permission entry, 0 when none:
\* the for loops pass over databases without entries
RECURSIVE FirstDbFrom(_, _)
FirstDbFrom(server, d) ==
    IF d > Len(Databases(server)) THEN 0
    ELSE IF Len(Permissions(Databases(server)[d])) > 0 THEN d
    ELSE FirstDbFrom(server, d + 1)

\* the entry the loops reach after entry (d, p) of the server, <<0, 0>> when none
NextEntry(server, d, p) ==
    IF d > 0 /\ p < Len(Permissions(Databases(server)[d]))
    THEN <<d, p + 1>>
    ELSE LET n == FirstDbFrom(server, d + 1)
         IN  IF n = 0 THEN <<0, 0>> ELSE <<n, 1>>

\* one entry of the trace: sent, executed, committed tell whether arg was
\* handed to cursor.execute, ran without error, and was committed
Ev(op, arg, res) ==
    [op |-> op, s |-> si, d |-> di, p |-> pi, arg |-> arg, res |-> res, ret |-> "",
     sent |-> FALSE, executed |-> FALSE, committed |-> FALSE]

\* an existence query: res is "found", "absent" or "error"
QueryEv(op, sql, res) ==
    [Ev(op, sql, res) EXCEPT !.sent = TRUE, !.executed = (res # "error")]

\* the strings the trace keeps of a returned value
Bool(b) == IF b THEN "true" ELSE "false"
Ret(r) == IF r.raised THEN "raised" ELSE Bool(r.ret)

\* a call of _execute_sql with result r, the session answering out
ExecEv(op, sql, out, r) ==
    [Ev(op, sql, IF r.sent THEN out ELSE "simulated") EXCEPT
        !.ret = Ret(r), !.sent = r.sent, !.executed = r.executed, !.committed = r.committed]

\* what the environment may answer, within the failure budget
QueryResults == IF faults < MaxFaults THEN {"ok", "error"} ELSE {"ok"}
ExecOutcomes == IF faults < MaxFaults THEN {"ok", "exec_err", "commit_err"} ELSE {"ok"}
Fault(out) == IF out \in {"error", "exec_err", "commit_err"} THEN 1 ELSE 0

(* --------------------------- _execute_sql ------------------------------ *)
\* The outcome of one call: out is what the session does with the statement
\* ("ok", cursor.execute raises "exec_err", connection.commit raises
\* "commit_err").
\*   ret       the value returned
\*   raised    whether a pyodbc.Error leaves the call
\*   audit     self.audit_log after the call
\*   sent      whether the statement was handed to cursor.execute
\*   executed  whether cursor.execute ran the statement
\*   committed whether connection.commit succeeded
\* variants of _execute_sql with a slip in them
\* ... the dry-run test is missing
ExecuteSqlNoDryRun(dry, audit, sql, description, out) ==
    IF out = "ok"
    THEN [ret |-> TRUE, raised |-> FALSE,
          audit |-> Append(audit, [action |-> description, sql |-> sql,
                                   status |-> "success"]),
          sent |-> TRUE, executed |-> TRUE, committed |-> TRUE]
    ELSE [ret |-> FALSE, raised |-> FALSE,
          audit |-> Append(audit, [action |-> description, sql |-> sql,
                                   status |-> "failed", error |-> out]),
          sent |-> TRUE, executed |-> (out = "commit_err"), committed |-> FALSE]

\* ... connection.commit() stands after the try block
ExecuteSqlCommitRaises(dry, audit, sql, description, out) ==
    IF dry
    THEN [ret |-> TRUE, raised |-> FALSE, audit |-> audit,
          sent |-> FALSE, executed |-> FALSE, committed |-> FALSE]
    ELSE IF out = "ok"
    THEN [ret |-> TRUE, raised |-> FALSE,
          audit |-> Append(audit, [action |-> description, sql |-> sql,
                                   status |-> "success"]),
          sent |-> TRUE, executed |-> TRUE, committed |-> TRUE]
    ELSE IF out = "commit_err"
    THEN [ret |-> FALSE, raised |-> TRUE, audit |-> audit,
          sent |-> TRUE, executed |-> TRUE, committed |-> FALSE]
    ELSE [ret |-> FALSE, raised |-> FALSE,
          audit |-> Append(audit, [action |-> description, sql |-> sql,
                                   status |-> "failed", error |-> out]),
          sent |-> TRUE, executed |-> FALSE, committed |-> FALSE]

\* ... the except branch does not record the failure
ExecuteSqlFailUnaudited(dry, audit, sql, description, out) ==
    IF dry
    THEN [ret |-> TRUE, raised |-> FALSE, audit |-> audit,
          sent |-> FALSE, executed |-> FALSE, committed |-> FALSE]
    ELSE IF out = "ok"
    THEN [ret |-> TRUE, raised |-> FALSE,
          audit |-> Append(audit, [action |-> description, sql |-> sql,
                                   status |-> "success"]),
          sent |-> TRUE, executed |-> TRUE, committed |-> TRUE]
    ELSE [ret |-> FALSE, raised |-> FALSE, audit |-> audit,
          sent |-> TRUE, executed |-> (out = "commit_err"), committed |-> FALSE]

\* ... the except branch returns True
ExecuteSqlAlwaysTrue(dry, audit, sql, description, out) ==
    IF dry
    THEN [ret |-> TRUE, raised |-> FALSE, audit |-> audit,
          sent |-> FALSE, executed |-> FALSE, committed |-> FALSE]
    ELSE IF out = "ok"
    THEN [ret |-> TRUE, raised |-> FALSE,
          audit |-> Append(audit, [action |-> description, sql |-> sql,
                                   status |-> "success"]),
          sent |-> TRUE, executed |-> TRUE, committed |-> TRUE]
    ELSE [ret |-> TRUE, raised |-> FALSE,
          audit |-> Append(audit, [action |-> description, sql |-> sql,
                                   status |-> "failed", error |-> out]),
          sent |-> TRUE, executed |-> (out = "commit_err"), committed |-> FALSE]

\* ... the records are put at the front of the audit log
ExecuteSqlPrepends(dry, audit, sql, description, out) ==
    IF dry
    THEN [ret |-> TRUE, raised |-> FALSE, audit |-> audit,
          sent |-> FALSE, executed |-> FALSE, committed |-> FALSE]
    ELSE IF out = "ok"
    THEN [ret |-> TRUE, raised |-> FALSE,
          audit |-> << [action |-> description, sql |-> sql,
                        status |-> "success"] >> \o audit,
          sent |-> TRUE, executed |-> TRUE, committed |-> TRUE]
    ELSE [ret |-> FALSE, raised |-> FALSE,
          audit |-> << [action |-> description, sql |-> sql,
                        status |-> "failed", error |-> out] >> \o audit,
          sent |-> TRUE, executed |-> (out = "commit_err"), committed |-> FALSE]

\* ... the dry-run branch ends without "return True"
ExecuteSqlDryFalse(dry, audit, sql, description, out) ==
    IF dry
    THEN [ret |-> FALSE, raised |-> FALSE, audit |-> audit,
          sent |-> FALSE, executed |-> FALSE, committed |-> FALSE]
    ELSE IF out = "ok"
    THEN [ret |-> TRUE, raised |-> FALSE,
          audit |-> Append(audit, [action |-> description, sql |-> sql,
                                   status |-> "success"]),
          sent |-> TRUE, executed |-> TRUE, committed |-> TRUE]
    ELSE [ret |-> FALSE, raised |-> FALSE,
          audit |-> Append(audit, [action |-> description, sql |-> sql,
                                   status |-> "failed", error |-> out]),
          sent |-> TRUE, executed |-> (out = "commit_err"), committed |-> FALSE]

ExecuteSql(dry, audit, sql, description, out) ==
    IF dry
    THEN [ret |-> TRUE, raised |-> FALSE, audit |-> audit,
          sent |-> FALSE, executed |-> FALSE, committed |-> FALSE]
    ELSE IF out = "ok"
    THEN [ret |-> TRUE, raised |-> FALSE,
          audit |-> Append(audit, [action |-> description, sql |-> sql,
                                   status |-> "success"]),
          sent |-> TRUE, executed |-> TRUE, committed |-> TRUE]
    ELSE [ret |-> FALSE, raised |-> FALSE,
          audit |-> Append(audit, [action |-> description, sql |-> sql,
                                   status |-> "failed", error |-> out]),
          sent |-> TRUE, executed |-> (out = "commit_err"), committed |-> FALSE]

\* the server state after the call: a statement takes effect when committed
\* (pyodbc sessions start with autocommit off; a statement whose commit
\* failed is taken as lost with its transaction)
AfterCall(state, srv, sql, r) == IF r.committed THEN Committed(state, srv, sql) ELSE state

\* the outcome given to a statement that never reaches the session, so that
\* it adds no branch
NoCall == "ok"

(* ---------------------------- _create_login ---------------------------- *)
\* q is what the existence query does, out what the session does with the
\* CREATE LOGIN.  ret is "true", "false" or "raised" (a pyodbc.Error leaves
\* the function: the query is not inside a try).
\* _create_login without its "if cursor.fetchone(): return True"
CreateLoginCallNoCheck(login, login_type, q, out) ==
    LET srv == CurServer.name
        sql == CreateLoginSql(login)
        r == ExecuteSql(dry_run, audit_log, sql, <<"Create login:", login>>, out)
        res == IF login \in db.logins[srv] THEN "found" ELSE "absent"
    IN  IF q = "error"
        THEN [ret |-> "raised", audit |-> audit_log, db |-> db, sent |-> FALSE,
              events |-> << QueryEv("check_login", CheckLoginSql(login), "error") >>]
        ELSE IF Lower(login_type) = "windows"
        THEN [ret |-> Ret(r),
              audit |-> r.audit, db |-> AfterCall(db, srv, sql, r), sent |-> r.sent,
              events |-> << QueryEv("check_login", CheckLoginSql(login), res),
                            ExecEv("create_login", sql, out, r) >>]
        ELSE [ret |-> "false", audit |-> audit_log, db |-> db, sent |-> FALSE,
              events |-> << QueryEv("check_login", CheckLoginSql(login), res) >>]

CreateLoginCall(login, login_type, q, out) ==
    LET srv == CurServer.name
        sql == CreateLoginSql(login)
        r == ExecuteSql(dry_run, audit_log, sql, <<"Create login:", login>>, out)
    IN  IF q = "error"
        THEN [ret |-> "raised", audit |-> audit_log, db |-> db, sent |-> FALSE,
              events |-> << QueryEv("check_login", CheckLoginSql(login), "error") >>]
        ELSE IF login \in db.logins[srv]
        THEN [ret |-> "true", audit |-> audit_log, db |-> db, sent |-> FALSE,
              events |-> << QueryEv("check_login", CheckLoginSql(login), "found") >>]
        ELSE IF Lower(login_type) = "windows"
        THEN [ret |-> Ret(r),
              audit |-> r.audit, db |-> AfterCall(db, srv, sql, r), sent |-> r.sent,
              events |-> << QueryEv("check_login", CheckLoginSql(login), "absent"),
                            ExecEv("create_login", sql, out, r) >>]
        ELSE [ret |-> "false", audit |-> audit_log, db |-> db, sent |-> FALSE,
              events |-> << QueryEv("check_login", CheckLoginSql(login), "absent") >>]

(* ------------------------ _create_database_user ------------------------ *)
CreateDatabaseUserCall(database, login, user, q, out) ==
    LET srv == CurServer.name
        name == ResolvedUser(user, login)
        sql == CreateUserSql(database, name, login)
        r == ExecuteSql(dry_run, audit_log, sql, <<"Create user", name, "in database", database>>, out)
    IN  IF q = "error"
        THEN [ret |-> "raised", audit |-> audit_log, db |-> db, sent |-> FALSE,
              events |-> << QueryEv("check_user", CheckUserSql(database, name), "error") >>]
        ELSE IF name \in db.users[srv][database]
        THEN [ret |-> "true", audit |-> audit_log, db |-> db, sent |-> FALSE,
              events |-> << QueryEv("check_user", CheckUserSql(database, name), "found") >>]
        ELSE [ret |-> Ret(r),
              audit |-> r.audit, db |-> AfterCall(db, srv, sql, r), sent |-> r.sent,
              events |-> << QueryEv("check_user", CheckUserSql(database, name), "absent"),
                            ExecEv("create_user", sql, out, r) >>]

(* --------------------------- _add_role_member -------------------------- *)
AddRoleMemberCall(database, user, role, out) ==
    LET sql == AddRoleMemberSql(database, role, user)
        r == ExecuteSql(dry_run, audit_log, sql,
                        <<"Add", user, "to role", role, "in database", database>>, out)
    IN  [ret |-> Ret(r),
         audit |-> r.audit, db |-> AfterCall(db, CurServer.name, sql, r), sent |-> r.sent,
         events |-> << ExecEv("add_role", sql, out, r) >>]

(* --------------------------- _grant_permission ------------------------- *)
GrantPermissionCall(database, user, permission, object_name, out) ==
    LET sql == GrantSql(database, permission, object_name, user)
        description ==
            IF Truthy(object_name)
            THEN <<"Grant", permission, "on", object_name, "to", user, "in", database>>
            ELSE <<"Grant", permission, "to", user, "in", database>>
        r == ExecuteSql(dry_run, audit_log, sql, description, out)
    IN  [ret |-> Ret(r),
         audit |-> r.audit, db |-> AfterCall(db, CurServer.name, sql, r), sent |-> r.sent,
         events |-> << ExecEv("grant", sql, out, r) >>]

(* ------------------------- control of the walk ------------------------- *)
Goto(label, s, d, p, r) == pc' = label /\ si' = s /\ di' = d /\ pi' = p /\ ri' = r

\* the next iteration of "for perm in ...", of "for db_config in ...", or
\* the statement after the loops (connection.close())
NextPermission ==
    LET e == NextEntry(CurServer, di, pi)
    IN  IF e = <<0, 0>> THEN Goto("close", si, 0, 0, 0) ELSE Goto("login", si, e[1], e[2], 0)

\* the grants loop left out
EnterGrantsSkipped == NextPermission

\* "for grant in perm.get('grants', [])"
EnterGrants ==
    IF Len(Grants(CurPerm)) > 0 THEN Goto("grants", si, di, pi, 1) ELSE NextPermission

\* "for role in perm.get('roles', [])"
EnterRoles ==
    IF Len(Roles(CurPerm)) > 0 THEN Goto("roles", si, di, pi, 1) ELSE EnterGrants

\* the handler with "break" in the place of "continue"
ExceptBreak(events) ==
    /\ total_failed' = total_failed + 1
    /\ total_success' = total_success
    /\ Goto("server", Len(config.servers) + 1, 0, 0, 0)
    /\ trace' = trace \o events \o << Ev("except", << >>, "pyodbc.Error") >>

\* the handler without its "total_failed += 1"
ExceptUncounted(events) ==
    /\ total_failed' = total_failed
    /\ total_success' = total_success
    /\ Goto("server", si + 1, 0, 0, 0)
    /\ trace' = trace \o events \o << Ev("except", << >>, "pyodbc.Error") >>

\* except pyodbc.Error: total_failed += 1; continue  (the handler of the
\* server's try block; connection.close() is not reached)
Except(events) ==
    /\ total_failed' = total_failed + 1
    /\ total_success' = total_success
    /\ Goto("server", si + 1, 0, 0, 0)
    /\ trace' = trace \o events \o << Ev("except", << >>, "pyodbc.Error") >>

\* an "if" that takes its branch whatever was returned
TruthAlways(ret) == TRUE

\* the test of "if self._create_login(...)" / "if self._create_database_user(...)"
\* / "if self._add_role_member(...)" on a returned value
Truth(ret) == ret = "true"

\* the else branch without its "total_failed += 1"
CountFailedNever(ret) == 0

\* "total_success += 1" in the if branch, "total_failed += 1" in the else
CountSuccess(ret) == IF Truth(ret) THEN 1 ELSE 0
CountFailed(ret) == IF Truth(ret) THEN 0 ELSE 1

(* ------------------------------ actions -------------------------------- *)
\* _load_config without its call of _validate_config
LoadConfigUnvalidated ==
    /\ pc = "load"
    /\ Goto("server", 1, 0, 0, 0) /\ exit_code' = exit_code
    /\ UNCHANGED <<config, dry_run, audit_log, total_success, total_failed, session,
                   db, db0, trace, faults, audit_file>>

\* __init__ / _load_config / _validate_config, up to the start of the walk
LoadConfig ==
    /\ pc = "load"
    /\ IF "servers" \in DOMAIN config
       THEN Goto("server", 1, 0, 0, 0) /\ exit_code' = exit_code
       ELSE Goto("exited", 0, 0, 0, 0) /\ exit_code' = 1
    /\ UNCHANGED <<config, dry_run, audit_log, total_success, total_failed, session,
                   db, db0, trace, faults, audit_file>>

\* pyodbc.connect for the next server of the configuration
Connect ==
    /\ pc = "server"
    /\ si <= Len(config.servers)
    /\ \E res \in QueryResults :
          /\ faults' = faults + Fault(res)
          /\ IF res = "ok"
             THEN /\ session' = [session EXCEPT ![si] = "open"]
                  /\ trace' = Append(trace, Ev("connect", CurServer.name, "ok"))
                  /\ LET e == NextEntry(CurServer, 0, 0)
                     IN  IF e = <<0, 0>> THEN Goto("close", si, 0, 0, 0)
                         ELSE Goto("login", si, e[1], e[2], 0)
                  /\ UNCHANGED <<total_success, total_failed>>
             ELSE /\ session' = [session EXCEPT ![si] = "refused"]
                  /\ Except(<< Ev("connect", CurServer.name, "error") >>)
    /\ UNCHANGED <<config, dry_run, audit_log, db, db0, audit_file, exit_code>>

\* if self._create_login(connection, login, perm.get('login_type', 'windows')):
EnsureLogin ==
    /\ pc = "login"
    /\ \E q \in QueryResults, out \in ExecOutcomes :
          LET r == CreateLoginCall(CurLogin, Get(CurPerm, "login_type", "windows"), q, out)
          IN  /\ ~r.sent => out = NoCall
              /\ faults' = faults + Fault(q) + Fault(out)
              /\ audit_log' = r.audit
              /\ db' = r.db
              /\ CASE r.ret = "raised" -> Except(r.events)
                   [] r.ret # "raised" /\ Truth(r.ret) ->
                        /\ Goto("user", si, di, pi, 0)
                        /\ trace' = trace \o r.events \o << Ev("ensure_login", CurLogin, r.ret) >>
                        /\ UNCHANGED <<total_success, total_failed>>
                   [] r.ret # "raised" /\ ~Truth(r.ret) ->
                        /\ NextPermission
                        /\ trace' = trace \o r.events \o << Ev("ensure_login", CurLogin, r.ret) >>
                        /\ UNCHANGED <<total_success, total_failed>>
    /\ UNCHANGED <<config, dry_run, session, db0, audit_file, exit_code>>

\* if self._create_database_user(connection, database, login, user):
EnsureDatabaseUser ==
    /\ pc = "user"
    /\ \E q \in QueryResults, out \in ExecOutcomes :
          LET r == CreateDatabaseUserCall(CurDb.name, CurLogin, CurUser, q, out)
          IN  /\ ~r.sent => out = NoCall
              /\ faults' = faults + Fault(q) + Fault(out)
              /\ audit_log' = r.audit
              /\ db' = r.db
              /\ CASE r.ret = "raised" -> Except(r.events)
                   [] r.ret # "raised" /\ Truth(r.ret) ->
                        /\ EnterRoles
                        /\ trace' = trace \o r.events \o << Ev("ensure_user", CurUser, r.ret) >>
                        /\ UNCHANGED <<total_success, total_failed>>
                   [] r.ret # "raised" /\ ~Truth(r.ret) ->
                        /\ NextPermission
                        /\ trace' = trace \o r.events \o << Ev("ensure_user", CurUser, r.ret) >>
                        /\ UNCHANGED <<total_success, total_failed>>
    /\ UNCHANGED <<config, dry_run, session, db0, audit_file, exit_code>>

\* one iteration of the roles loop
AddRoleMember ==
    /\ pc = "roles"
    /\ \E out \in ExecOutcomes :
          LET r == AddRoleMemberCall(CurDb.name, CurUser, Roles(CurPerm)[ri], out)
          IN  /\ ~r.sent => out = NoCall
              /\ faults' = faults + Fault(out)
              /\ audit_log' = r.audit
              /\ db' = r.db
              /\ IF r.ret = "raised" THEN Except(r.events)
                 ELSE /\ trace' = trace \o r.events
                      /\ total_success' = total_success + CountSuccess(r.ret)
                      /\ total_failed' = total_failed + CountFailed(r.ret)
                      /\ IF ri < Len(Roles(CurPerm)) THEN Goto("roles", si, di, pi, ri + 1)
                         ELSE EnterGrants
    /\ UNCHANGED <<config, dry_run, session, db0, audit_file, exit_code>>

\* one iteration of the grants loop
GrantPermission ==
    /\ pc = "grants"
    /\ \E out \in ExecOutcomes :
          LET grant == Grants(CurPerm)[ri]
              r == GrantPermissionCall(CurDb.name, CurUser, grant.permission,
                                       Get(grant, "object", None), out)
          IN  /\ ~r.sent => out = NoCall
              /\ faults' = faults + Fault(out)
              /\ audit_log' = r.audit
              /\ db' = r.db
              /\ IF r.ret = "raised" THEN Except(r.events)
                 ELSE /\ trace' = trace \o r.events
                      /\ total_success' = total_success + CountSuccess(r.ret)
                      /\ total_failed' = total_failed + CountFailed(r.ret)
                      /\ IF ri < Len(Grants(CurPerm)) THEN Goto("grants", si, di, pi, ri + 1)
                         ELSE NextPermission
    /\ UNCHANGED <<config, dry_run, session, db0, audit_file, exit_code>>

\* connection.close() after the databases of a server (close is taken to
\* succeed on an open session)
CloseConnection ==
    /\ pc = "close"
    /\ session' = [session EXCEPT ![si] = "closed"]
    /\ trace' = Append(trace, Ev("close", CurServer.name, "ok"))
    /\ Goto("server", si + 1, 0, 0, 0)
    /\ UNCHANGED <<config, dry_run, audit_log, total_success, total_failed, db, db0,
                   faults, audit_file, exit_code>>

\* _export_audit_log without its "if not self.audit_log: return"
ExportAuditLogAlways(log, io) ==
    [attempted |-> TRUE, file |-> IF io = "ok" THEN << log >> ELSE << >>]

\* _export_audit_log: io is what open/json.dump do ("io_error": one of them
\* raises, the handler logs it, and no complete file is left).
\*   attempted  whether the file was opened for writing
\*   file       the files the run leaves, each the JSON array written to it
ExportAuditLog(log, io) ==
    IF log = << >> THEN [attempted |-> FALSE, file |-> << >>]
    ELSE [attempted |-> TRUE, file |-> IF io = "ok" THEN << log >> ELSE << >>]

\* the summary, the export of the audit log and the return to main
Finish ==
    /\ pc = "server"
    /\ si > Len(config.servers)
    /\ \E io \in (IF faults < MaxFaults THEN {"ok", "io_error"} ELSE {"ok"}) :
          LET x == ExportAuditLog(audit_log, io)
          IN  /\ ~x.attempted => io = "ok"
              /\ audit_file' = x.file
              /\ trace' = trace \o (IF x.attempted THEN << Ev("export", << >>, io) >>
                                                  ELSE << >>)
              /\ faults' = faults + (IF io = "ok" THEN 0 ELSE 1)
    /\ exit_code' = 0
    /\ Goto("done", si, 0, 0, 0)
    /\ UNCHANGED <<config, dry_run, audit_log, total_success, total_failed, session,
                   db, db0>>

Next ==
    \/ LoadConfig
    \/ Connect
    \/ EnsureLogin
    \/ EnsureDatabaseUser
    \/ AddRoleMember
    \/ GrantPermission
    \/ CloseConnection
    \/ Finish

Spec == Init /\ [][Next]_vars

(* ------------------- the helpers called on their own ------------------- *)
\* One open session to SQL-01; _create_login and _create_database_user are
\* called directly, up to MaxCalls times, each call with arguments of its
\* caller's choice.  Each call ends the step with its returned value (or
\* "raised") in the trace, the arguments in arg.
InitHelpers ==
    /\ config = [servers |-> <<ServerOne>>]
    /\ dry_run \in BOOLEAN
    /\ audit_log = << >>
    /\ total_success = 0
    /\ total_failed = 0
    /\ pc = "helper"
    /\ si = 1 /\ di = 0 /\ pi = 0 /\ ri = 0
    /\ session = <<"open">>
    /\ db \in InitialDbs
    /\ db0 = db
    /\ trace = << >>
    /\ faults = 0
    /\ audit_file = << >>
    /\ exit_code = -1

HelperCalls == Cardinality({ i \in 1..Len(trace) : trace[i].op \in {"ensure_login", "ensure_user"} })

\* self._create_login(connection, login, login_type)
HelperCreateLogin ==
    /\ pc = "helper"
    /\ HelperCalls < MaxCalls
    /\ \E a \in {<<LoginApp, "windows">>, <<LoginSql, "sql">>},
          q \in QueryResults, out \in ExecOutcomes :
          LET r == CreateLoginCall(a[1], a[2], q, out)
          IN  /\ ~r.sent => out = NoCall
              /\ faults' = faults + Fault(q) + Fault(out)
              /\ audit_log' = r.audit
              /\ db' = r.db
              /\ trace' = trace \o r.events \o << Ev("ensure_login", a, r.ret) >>
    /\ UNCHANGED <<config, dry_run, total_success, total_failed, pc, si, di, pi, ri,
                   session, db0, audit_file, exit_code>>

\* self._create_database_user(connection, database, login, user)
HelperCreateDatabaseUser ==
    /\ pc = "helper"
    /\ HelperCalls < MaxCalls
    /\ \E a \in {<<"AppDb", LoginApp, None>>, <<"AppDb", LoginSql, <<"u">> >>},
          q \in QueryResults, out \in ExecOutcomes :
          LET r == CreateDatabaseUserCall(a[1], a[2], a[3], q, out)
          IN  /\ ~r.sent => out = NoCall
              /\ faults' = faults + Fault(q) + Fault(out)
              /\ audit_log' = r.audit
              /\ db' = r.db
              /\ trace' = trace \o r.events \o << Ev("ensure_user", a, r.ret) >>
    /\ UNCHANGED <<config, dry_run, total_success, total_failed, pc, si, di, pi, ri,
                   session, db0, audit_file, exit_code>>

NextHelpers ==
    \/ HelperCreateLogin
    \/ HelperCreateDatabaseUser

SpecHelpers == InitHelpers /\ [][NextHelpers]_vars

(* ------------------- the user name derivation alone -------------------- *)
\* One permission entry whose login is any string of up to MaxLoginLen
\* characters and whose 'user' is absent or null; the step computes the user
\* name _create_database_user works with for it.
LoginChars == {"A", "B", "c", BS}
LoginStrings == UNION { [1..n -> LoginChars] : n \in 0..MaxLoginLen }

InitDerive ==
    /\ \E l \in LoginStrings : \E perm \in {[login |-> l], [login |-> l, user |-> None]} :
          config = [servers |-> << [name |-> "SQL-01",
                       databases |-> << [name |-> "AppDb", permissions |-> <<perm>>] >>] >>]
    /\ dry_run = TRUE
    /\ audit_log = << >>
    /\ total_success = 0
    /\ total_failed = 0
    /\ pc = "derive"
    /\ si = 1 /\ di = 1 /\ pi = 1 /\ ri = 0
    /\ session = <<"open">>
    /\ db = NoPrincipals
    /\ db0 = db
    /\ trace = << >>
    /\ faults = 0
    /\ audit_file = << >>
    /\ exit_code = -1

\* user = perm.get('user', login.split('\\')[-1]) in apply_permissions, then
\* "if user is None: user = login.split('\\')[-1]" in _create_database_user
DeriveUser ==
    /\ pc = "derive"
    /\ pc' = "derived"
    /\ trace' = << Ev("derive", CurLogin, ResolvedUser(CurUser, CurLogin)) >>
    /\ UNCHANGED <<config, dry_run, audit_log, total_success, total_failed, si, di, pi, ri,
                   session, db, db0, faults, audit_file, exit_code>>

SpecDerive == InitDerive /\ [][DeriveUser]_vars

(* ======================= properties of the run ========================= *)
ExecOps == {"create_login", "create_user", "add_role", "grant"}
QueryOps == {"check_login", "check_user"}
GrantOps == {"add_role", "grant"}

IsExec(e) == e.op \in ExecOps
\* the calls of _execute_sql, in order
ExecCalls == SelectSeq(trace, IsExec)
Count(seq, P(_)) == Len(SelectSeq(seq, P))
Events(ops) == { i \in 1..Len(trace) : trace[i].op \in ops }

\* C1: in dry-run mode no mutating statement (CREATE LOGIN, CREATE USER,
\* ALTER ROLE ... ADD MEMBER, GRANT) is handed to a session, executed or
\* committed, and the security state of the servers stays what it was at
\* the start of the run.
C1_DryRunMutatesNothing ==
    dry_run =>
        /\ db = db0
        /\ \A i \in Events(ExecOps \cup QueryOps) :
              IsMutating(trace[i].arg) =>
                  ~trace[i].sent /\ ~trace[i].executed /\ ~trace[i].committed

\* a finished dry run that planned a statement of each kind
C1_Witness ==
    /\ dry_run /\ pc = "done"
    /\ \A op \in ExecOps : \E i \in Events({op}) : IsMutating(trace[i].arg)

\* C2: in dry-run mode every call of _execute_sql appends exactly one audit
\* record, with status simulated.
C2_DryRunAuditsEveryCall ==
    dry_run =>
        /\ Len(audit_log) = Len(ExecCalls)
        /\ \A k \in 1..Len(audit_log) : audit_log[k].status = "simulated"

\* C3: in live mode every call of _execute_sql appends exactly one audit
\* record and never raises: it returns true with a record of status success
\* when execute and commit succeed, false with a record of status failed
\* that carries the error when either fails.
C3_LiveCallAuditedNeverRaises ==
    ~dry_run =>
        /\ Len(audit_log) = Len(ExecCalls)
        /\ \A k \in 1..Len(ExecCalls) :
              LET e == ExecCalls[k]
                  rec == audit_log[k]
              IN  /\ e.ret # "raised"
                  /\ rec.sql = e.arg
                  /\ e.sent
                  /\ (e.executed /\ e.committed) =>
                        e.ret = "true" /\ rec.status = "success"
                  /\ ~(e.executed /\ e.committed) =>
                        /\ e.ret = "false" /\ rec.status = "failed"
                        /\ "error" \in DOMAIN rec /\ rec.error = e.res

\* a finished live run with a successful call, a failed execute and a
\* failed commit
C3_Witness ==
    /\ ~dry_run /\ pc = "done"
    /\ \A res \in {"ok", "exec_err", "commit_err"} :
          \E k \in 1..Len(ExecCalls) : ExecCalls[k].res = res

(* ------------------------- servers and entries ------------------------- *)
ServerIds == 1..Len(Get(config, "servers", << >>))
\* the permission entries <<d, p>> of server s
EntriesOf(s) ==
    LET dbs == Databases(config.servers[s])
    IN  UNION { { <<d, p>> : p \in 1..Len(Permissions(dbs[d])) } : d \in 1..Len(dbs) }
PermAt(s, d, p) == Permissions(Databases(config.servers[s])[d])[p]
\* the trace positions of the events of ops for entry (s, d, p)
At(ops, s, d, p) ==
    { i \in Events(ops) : trace[i].s = s /\ trace[i].d = d /\ trace[i].p = p }

ConnectFailed(s) == \E i \in Events({"connect"}) : trace[i].s = s /\ trace[i].res = "error"
Connected(s) == \E i \in Events({"connect"}) : trace[i].s = s /\ trace[i].res = "ok"
\* a pyodbc.Error left the subtree of the connected server s
Raised(s) == Connected(s) /\ \E i \in Events({"except"}) : trace[i].s = s
Returned(op, s, d, p, res) == \E i \in At({op}, s, d, p) : trace[i].res = res

\* every entry of server s was started, and every entry whose login and user
\* were ensured had one statement per role and per grant
FullyProcessed(s) ==
    \A e \in EntriesOf(s) :
        /\ At({"check_login"}, s, e[1], e[2]) # {}
        /\ Returned("ensure_login", s, e[1], e[2], "true") =>
              At({"check_user"}, s, e[1], e[2]) # {}
        /\ Returned("ensure_user", s, e[1], e[2], "true") =>
              /\ Cardinality(At({"add_role"}, s, e[1], e[2])) = Len(Roles(PermAt(s, e[1], e[2])))
              /\ Cardinality(At({"grant"}, s, e[1], e[2])) = Len(Grants(PermAt(s, e[1], e[2])))

\* the step is a failed pyodbc.connect
ConnectFails ==
    /\ Len(trace') > Len(trace)
    /\ trace'[Len(trace) + 1].op = "connect"
    /\ trace'[Len(trace) + 1].res = "error"

C4_AtEnd ==
    (pc = "done" /\ \E f \in ServerIds : ConnectFailed(f)) =>
        \A s \in ServerIds :
            /\ Connected(s) \/ ConnectFailed(s)
            /\ (Connected(s) /\ ~Raised(s) /\ \E f \in 1..(s - 1) : ConnectFailed(f)) =>
                  FullyProcessed(s)

\* C4: a failed connection does not abort the run: the step leaves the audit
\* log, the servers' state and total_success as they were and goes on to the
\* next server, every server of the configuration is tried, and a later
\* server that connects has all its entries processed as it would without
\* the failing one.
C4_ConnectFailureIsolated ==
    [][ /\ ConnectFails =>
            /\ pc' = "server" /\ si' = si + 1
            /\ audit_log' = audit_log /\ db' = db /\ total_success' = total_success
        /\ C4_AtEnd' ]_vars

\* a finished run in which a server failed to connect and a later one was
\* walked to the end with roles counted
C4_Witness ==
    /\ pc = "done"
    /\ \E f \in ServerIds, s \in ServerIds :
          /\ f < s /\ ConnectFailed(f) /\ Connected(s) /\ ~Raised(s)
          /\ \E e \in EntriesOf(s) : At({"add_role"}, s, e[1], e[2]) # {}
    /\ total_success > 0

\* C5: a database-level failure inside one permission entry of a connected
\* server, the existence queries included, is caught there, and the walk
\* goes on with the other entries and databases of the server: at the end
\* every entry of every connected server has been started.
C5_EntryFailureIsolated ==
    pc = "done" =>
        \A s \in ServerIds :
            Connected(s) =>
                \A e \in EntriesOf(s) : At({"check_login"}, s, e[1], e[2]) # {}

\* C6 as stated: at the end total_success + total_failed is the number of
\* role-membership and grant statements attempted, nothing else counts.
C6_CountsOnlyRoleGrantAttempts ==
    pc = "done" => total_success + total_failed = Cardinality(Events(GrantOps))

\* C6 amended: total_success + total_failed is the number of role-membership
\* and grant statements attempted plus the number of servers whose try
\* block ended in the pyodbc.Error handler (failed connection, or an error
\* raised inside the server's subtree); login creation, user creation and
\* skipped entries add nothing.  It holds all along the run, so at its end.
C6_CountsAttemptsAndServerErrors ==
    total_success + total_failed =
        Cardinality(Events(GrantOps)) + Cardinality(Events({"except"}))

\* a finished run with a server error, counted roles, a login creation and
\* a skipped entry
C6_Witness ==
    /\ pc = "done"
    /\ Events({"except"}) # {} /\ Events({"add_role"}) # {}
    /\ Events({"create_login"}) # {}
    /\ \E i \in Events({"ensure_login"}) : trace[i].res = "false"

IsGrantSql(sql) == sql[1] = "USE" /\ sql[3] \in {"ALTER ROLE", "GRANT"}
AuditSuccess(rec) == rec.status = "success"
AuditFailed(rec) == rec.status = "failed"
AuditGrantSuccess(rec) == rec.status = "success" /\ IsGrantSql(rec.sql)
AuditGrantFailed(rec) == rec.status = "failed" /\ IsGrantSql(rec.sql)

\* C7 as stated: at the end total_success is the number of audit records
\* with status success and total_failed the number with status failed.
C7_SummaryEqualsAudit ==
    pc = "done" =>
        /\ total_success = Count(audit_log, AuditSuccess)
        /\ total_failed = Count(audit_log, AuditFailed)

\* C7 amended: total_failed is the number of failed audit records of
\* role-membership and grant statements plus the number of servers whose
\* try block ended in the pyodbc.Error handler; in live mode total_success
\* is the number of success records of role-membership and grant statements
\* (records of login and user creation are not counted); in dry-run mode
\* the audit log is empty and total_success is the number of role-membership
\* and grant calls.  It holds all along the run, so at its end.
C7_SummaryVersusAudit ==
    /\ total_failed = Count(audit_log, AuditGrantFailed) + Cardinality(Events({"except"}))
    /\ ~dry_run => total_success = Count(audit_log, AuditGrantSuccess)
    /\ dry_run => audit_log = << >> /\ total_success = Cardinality(Events(GrantOps))

\* a finished live run whose audit log has a failed role or grant, a
\* successful one and a successful login creation, and a server error
C7_Witness ==
    /\ ~dry_run /\ pc = "done"
    /\ Count(audit_log, AuditGrantFailed) > 0
    /\ Count(audit_log, AuditGrantSuccess) > 0
    /\ Count(audit_log, AuditSuccess) > Count(audit_log, AuditGrantSuccess)
    /\ Events({"except"}) # {}

\* the step ends with helper op returning res
Returns(op, res) ==
    /\ Len(trace') > Len(trace)
    /\ trace'[Len(trace')].op = op
    /\ trace'[Len(trace')].res = res

\* C8: when _create_login returns false for an entry, or it returns true and
\* _create_database_user returns false, no role-membership and no grant
\* statement is issued for the entry, and total_success and total_failed
\* are after the entry what they were before it: the step leaves the
\* counters alone and goes to another entry or to the end of the server.
C8_SkipLeavesCountersAlone ==
    [][ /\ (Returns("ensure_login", "false") \/ Returns("ensure_user", "false")) =>
            /\ total_success' = total_success /\ total_failed' = total_failed
            /\ pc' \in {"login", "close"}
            /\ pc' = "login" => <<di', pi'>> # <<di, pi>>
        /\ Returns("ensure_login", "true") =>
            total_success' = total_success /\ total_failed' = total_failed
        /\ \A i \in Events({"ensure_login", "ensure_user"})' :
              trace'[i].res = "false" =>
                  \A j \in Events(GrantOps)' :
                      <<trace'[j].s, trace'[j].d, trace'[j].p>>
                          # <<trace'[i].s, trace'[i].d, trace'[i].p>> ]_vars

\* a finished run in which a login could not be ensured, a user could not
\* be ensured after its login was, and roles of another entry were counted
C8_Witness ==
    /\ pc = "done"
    /\ \E i \in Events({"ensure_login"}) : trace[i].res = "false"
    /\ \E i \in Events({"ensure_user"}) : trace[i].res = "false"
    /\ total_success > 0

\* C9: whenever _create_login returned false for an entry, the audit log
\* holds a record of the entry's login creation.
C9_SkipVisibleInAudit ==
    \A i \in Events({"ensure_login"}) :
        trace[i].res = "false" =>
            \E k \in 1..Len(audit_log) :
                audit_log[k].sql[1] = "CREATE LOGIN" /\ audit_log[k].sql[2] = trace[i].arg

\* C10: in live mode a CREATE USER is handed to the session only after the
\* entry's login was found by the existence query or its CREATE LOGIN was
\* executed and committed, and an ALTER ROLE or GRANT only after the entry's
\* user was found or its CREATE USER was executed and committed.
C10_PrincipalsBeforeUse ==
    ~dry_run =>
        /\ \A i \in Events({"create_user"}) :
              trace[i].sent =>
                  \E j \in At({"check_login", "create_login"}, trace[i].s, trace[i].d, trace[i].p) :
                      /\ j < i
                      /\ \/ trace[j].op = "check_login" /\ trace[j].res = "found"
                         \/ trace[j].op = "create_login" /\ trace[j].committed
        /\ \A i \in Events(GrantOps) :
              trace[i].sent =>
                  \E j \in At({"check_user", "create_user"}, trace[i].s, trace[i].d, trace[i].p) :
                      /\ j < i
                      /\ \/ trace[j].op = "check_user" /\ trace[j].res = "found"
                         \/ trace[j].op = "create_user" /\ trace[j].committed

\* a finished live run that created a login, then its user, then added a
\* role, and in which some CREATE LOGIN and some CREATE USER failed
C10_Witness ==
    /\ ~dry_run /\ pc = "done"
    /\ \E i \in Events({"create_login"}), j \in Events({"create_user"}), k \in Events({"add_role"}) :
          /\ i < j /\ j < k
          /\ trace[i].committed /\ trace[j].committed /\ trace[k].sent
          /\ <<trace[i].s, trace[i].d, trace[i].p>> = <<trace[j].s, trace[j].d, trace[j].p>>
          /\ <<trace[j].s, trace[j].d, trace[j].p>> = <<trace[k].s, trace[k].d, trace[k].p>>
    /\ \E i \in Events({"create_login", "create_user"}) : ~trace[i].committed

(* ------------------------ helpers called twice ------------------------- *)
\* the step is a helper call with the arguments of the call before it
Repeats ==
    /\ Len(trace) > 0 /\ Len(trace') > Len(trace)
    /\ trace[Len(trace)].op \in {"ensure_login", "ensure_user"}
    /\ trace'[Len(trace')].op = trace[Len(trace)].op
    /\ trace'[Len(trace')].arg = trace[Len(trace)].arg
\* the step hands no mutating statement to the session
SendsNoMutation ==
    \A i \in (Len(trace) + 1)..Len(trace') :
        (trace'[i].op \in ExecOps \cup QueryOps /\ IsMutating(trace'[i].arg)) =>
            ~trace'[i].sent
\* the existence query of the step answered
QueryAnswered == trace'[Len(trace) + 1].res # "error"

GrantFailed == \E i \in Events(GrantOps) : trace[i].ret = "false"

\* C12: the exit status of a finished run is non-zero if a role-membership
\* or grant operation failed and zero if none did.
C12_ExitReflectsFailures ==
    pc = "done" => (exit_code # 0 <=> GrantFailed)

\* C13: a configuration without 'servers' ends the run with a fatal error
\* (exit status 1) before the walk starts: no connection is opened, no
\* statement is sent and no audit record is appended.
C13_MissingServersIsFatal ==
    "servers" \notin DOMAIN config =>
        /\ pc \in {"load", "exited"}
        /\ pc = "exited" => exit_code = 1
        /\ trace = << >> /\ audit_log = << >> /\ audit_file = << >>
        /\ \A i \in DOMAIN session : session[i] = "none"
        /\ db = db0

\* the run of a configuration without 'servers' has ended
C13_Witness == "servers" \notin DOMAIN config /\ pc = "exited" /\ exit_code = 1

(* ------------------------- user name derivation ------------------------ *)
\* name is the part of login after its last backslash, all of login when it
\* has none
AfterLastSeparator(login, name) ==
    /\ \A i \in 1..Len(name) : name[i] # BS
    /\ Len(name) <= Len(login)
    /\ SubSeq(login, Len(login) - Len(name) + 1, Len(login)) = name
    /\ Len(name) < Len(login) => login[Len(login) - Len(name)] = BS

NothingSentTo(s) == \A i \in Events(ExecOps \cup QueryOps) : trace[i].s # s

\* C15: a failed pyodbc.connect adds exactly one to total_failed, leaves
\* total_success as it was, and no statement or query is issued for any
\* database or entry of that server.
C15_ConnectFailureCountedOnce ==
    [][ /\ ConnectFails =>
            total_failed' = total_failed + 1 /\ total_success' = total_success
        /\ \A s \in ServerIds :
              ConnectFailed(s)' => NothingSentTo(s)' /\ session'[s] = "refused" ]_vars

\* a finished run in which the first server failed to connect and a later one
\* was sent statements
C15_Witness ==
    /\ pc = "done"
    /\ ConnectFailed(1)
    /\ \E i \in Events(ExecOps) : trace[i].s > 1
    /\ total_failed = 1

(* ---------------------------- roles and grants ------------------------- *)
\* the statements of entry (s, d, p): one per role, then one per grant
ExpectedStatements(s, d, p) ==
    LET perm == PermAt(s, d, p)
        database == Databases(config.servers[s])[d].name
        user == EffectiveUser(perm)
    IN  [k \in 1..Len(Roles(perm)) |-> AddRoleMemberSql(database, Roles(perm)[k], user)]
        \o [k \in 1..Len(Grants(perm)) |->
               GrantSql(database, Grants(perm)[k].permission,
                        Get(Grants(perm)[k], "object", None), user)]

\* the role and grant calls made for entry (s, d, p), in order
GrantCallsOf(s, d, p) ==
    LET Mine(e) == e.op \in GrantOps /\ e.s = s /\ e.d = d /\ e.p = p
    IN  SelectSeq(trace, Mine)

\* the trace only grows at its end
TraceGrows == Len(trace') >= Len(trace) /\ SubSeq(trace', 1, Len(trace)) = trace

\* the calls made for every entry whose user was ensured are those of its
\* roles, then those of its grants
C16_StatementsInOrder ==
    \A i \in Events({"ensure_user"}) :
        trace[i].res = "true" =>
            LET calls == GrantCallsOf(trace[i].s, trace[i].d, trace[i].p)
                expected == ExpectedStatements(trace[i].s, trace[i].d, trace[i].p)
            IN  /\ Len(calls) = Len(expected)
                /\ \A k \in 1..Len(calls) : calls[k].arg = expected[k]

\* C16: for an entry whose login and user were both ensured, one statement
\* is attempted per configured role and per configured grant, the roles
\* first, in order, whatever the earlier ones returned, and each returned
\* value adds one to exactly one of total_success and total_failed.
C16_EachRoleAndGrantOnce ==
    [][ /\ \A i \in (Len(trace) + 1)..Len(trace') :
              trace'[i].op \in GrantOps =>
                  /\ trace'[i].ret = "true" =>
                        /\ total_success' = total_success + 1
                        /\ total_failed' = total_failed
                  /\ trace'[i].ret # "true" =>
                        /\ total_success' = total_success
                        /\ total_failed' = total_failed + 1
        /\ TraceGrows
        /\ pc' = "done" => C16_StatementsInOrder' ]_vars

\* a finished live run in which the first role of an entry failed and its
\* second role and its grant were attempted all the same
C16_Witness ==
    /\ pc = "done"
    /\ \E s \in ServerIds : \E e \in EntriesOf(s) :
          LET calls == GrantCallsOf(s, e[1], e[2])
          IN  /\ Len(calls) = 3
              /\ calls[1].ret = "false"
              /\ calls[2].op = "add_role" /\ calls[3].op = "grant"

(* ------------------------------ sessions ------------------------------- *)
OpenSessions == { s \in DOMAIN session : session[s] = "open" }

\* C17: a session that apply_permissions opened is closed before the next
\* server is started and at the latest when the run ends, on every path
\* through the server's subtree; at most one session is open at a time and
\* no statement is issued on a closed session.
C17_SessionsClosed ==
    /\ Cardinality(OpenSessions) <= 1
    /\ pc \in {"server", "done"} => OpenSessions = {}
    /\ \A i \in Events(ExecOps \cup QueryOps) :
          trace[i].sent => \A j \in Events({"close"}) : trace[j].s = trace[i].s => i < j

(* --------------------------- dry-run totals ---------------------------- *)
\* the entries <<s, d, p>> of the connected servers whose _create_login did
\* not return False
CountedEntries ==
    UNION { { <<s, e[1], e[2]>> : e \in { x \in EntriesOf(s) :
                  ~Returned("ensure_login", s, x[1], x[2], "false") } } :
            s \in { t \in ServerIds : Connected(t) } }

\* the number of roles plus grants configured in the entries of S
RECURSIVE StatementsIn(_)
StatementsIn(S) ==
    IF S = {} THEN 0
    ELSE LET x == CHOOSE y \in S : TRUE
             perm == PermAt(x[1], x[2], x[3])
         IN  Len(Roles(perm)) + Len(Grants(perm)) + StatementsIn(S \ {x})

\* C18: a dry run in which no existence check fails ends with total_success
\* equal to the number of configured roles plus grants of the entries, on
\* connected servers, whose ensure_login did not return false, and with
\* total_failed equal to the number of servers whose connection failed.
C18_DryRunTotals ==
    (/\ pc = "done"
     /\ dry_run
     /\ \A i \in Events(QueryOps) : trace[i].res # "error") =>
        /\ total_success = StatementsIn(CountedEntries)
        /\ total_failed = Cardinality({ s \in ServerIds : ConnectFailed(s) })

\* a finished dry run without a failed check: one server refused the
\* connection, one entry was skipped for its missing SQL login, and the
\* others were counted
C18_Witness ==
    /\ pc = "done"
    /\ dry_run
    /\ \A i \in Events(QueryOps) : trace[i].res # "error"
    /\ \E s \in ServerIds : ConnectFailed(s)
    /\ \E i \in Events({"ensure_login"}) : trace[i].res = "false"
    /\ total_success > 0

(* --------------------------- the audit file ---------------------------- *)
Exports == Events({"export"})
\* every server of the configuration has had its turn
AllServersProcessed == \A s \in ServerIds : Connected(s) \/ ConnectFailed(s)

IsStatement(e) == e.op \in ExecOps \cup QueryOps
\* the queries and statements of the run, in the order they were issued
Statements == SelectSeq(trace, IsStatement)
IsConnect(e) == e.op = "connect"
Connects == SelectSeq(trace, IsConnect)
IsSentExec(e) == e.op \in ExecOps /\ e.sent
\* the statements handed to cursor.execute by _execute_sql, in order
SentExecs == SelectSeq(trace, IsSentExec)

\* entry a is entry b or comes before it in the configuration
NotAfter(a, b) ==
    \/ a.s < b.s
    \/ a.s = b.s /\ a.d < b.d
    \/ a.s = b.s /\ a.d = b.d /\ a.p <= b.p

SameStatement(a, b) ==
    /\ Len(a) = Len(b)
    /\ a[1] = b[1]
    /\ a[1] = "USE" => a[3] = b[3]
    /\ a = b

\* the order of the whole run, read off its last state
C20_OrderAtEnd ==
    /\ \A k \in 1..Len(Connects) : Connects[k].s = k
    /\ \A k \in 1..(Len(Statements) - 1) : NotAfter(Statements[k], Statements[k + 1])
    /\ \A k \in 1..Len(audit_log) : SameStatement(audit_log[k].sql, SentExecs[k].arg)

\* C20: servers are connected to in configuration order, every query and
\* statement of a permission entry is issued before any of a later entry
\* (later in its database, its server or the configuration), audit_log only
\* ever grows at its end, and its records are those of the attempted
\* statements in the order of the attempts.
C20_ConfigurationOrder ==
    [][ /\ TraceGrows
        /\ Len(audit_log') >= Len(audit_log)
        /\ SubSeq(audit_log', 1, Len(audit_log)) = audit_log
        /\ Len(audit_log') = Len(SentExecs')
        /\ pc' = "done" => C20_OrderAtEnd' ]_vars

\* a finished live run with statements for two entries of one database and
\* for a second server, and three or more audit records
C20_Witness ==
    /\ pc = "done"
    /\ ~dry_run
    /\ Len(audit_log) >= 3
    /\ \E i, j \in 1..Len(SentExecs) :
          /\ SentExecs[i].s = SentExecs[j].s
          /\ SentExecs[i].d = SentExecs[j].d
          /\ SentExecs[i].p < SentExecs[j].p
    /\ \E i, j \in 1..Len(SentExecs) : SentExecs[i].s < SentExecs[j].s

(* ------------------------ the user of an entry ------------------------- *)
\* the user name in a statement or existence query of the helpers
UserIn(sql) ==
    IF sql[3] \in {"CREATE USER", "SELECT name FROM sys.database_principals WHERE name ="}
    THEN sql[4]
    ELSE sql[Len(sql)]

\* C21: the user name in every role-membership and grant statement of a
\* permission entry is the name that _create_database_user looked up or
\* created for the entry, whether the entry's user is absent, named or null.
C21_SameUserName ==
    \A i \in Events(GrantOps) :
        \A j \in At({"check_user", "create_user"}, trace[i].s, trace[i].d, trace[i].p) :
            UserIn(trace[i].arg) = UserIn(trace[j].arg)

====
